---- MODULE Spec2Model ----
(***************************************************************************)
(* Model of etl.py: the Sparkify ETL that turns song records and log       *)
(* events into four dimension tables and one fact table.                   *)
(*                                                                         *)
(* A dataframe is a sequence of records; its order only represents the     *)
(* collection, and everything Spark leaves open (which duplicate           *)
(* dropDuplicates retains, how rows are split across partitions) is a      *)
(* nondeterministic choice.  A ts value (epoch milliseconds, a 64-bit      *)
(* long) is the record [sec, ms] standing for 1000 * sec + ms.             *)
(***************************************************************************)
EXTENDS Integers, Sequences, FiniteSets

\* ------------------------------------------------------------------ bounds
MaxSongs == 2
MaxLogs == 2
NumPartitions == 2

\* ------------------------------------------------------------ generic help
Null == "null"

Range(s) == {s[i] : i \in 1..Len(s)}

RECURSIVE SubSeqAt(_, _, _)
\* the records of s at the indices in S, in index order, starting at index i
SubSeqAt(s, S, i) ==
    IF i > Len(s) THEN <<>>
    ELSE IF i \in S THEN <<s[i]>> \o SubSeqAt(s, S, i + 1)
    ELSE SubSeqAt(s, S, i + 1)

\* number of rows of table t equal to row r
Count(t, r) == Cardinality({i \in 1..Len(t) : t[i] = r})

\* two tables hold the same rows with the same multiplicities
SameRows(a, b) ==
    /\ Len(a) = Len(b)
    /\ \A r \in Range(a) \cup Range(b) : Count(a, r) = Count(b, r)

\* --------------------------------------------------------- calendar fields
\* calendar date [y, m, d] of a day number counted from 1970-01-01
CivilFromDays(days) ==
    LET z == days + 719468
        era == z \div 146097
        doe == z - era * 146097
        yoe == (doe - doe \div 1460 + doe \div 36524 - doe \div 146096) \div 365
        doy == doe - (365 * yoe + yoe \div 4 - yoe \div 100)
        mp == (5 * doy + 2) \div 153
        d == doy - (153 * mp + 2) \div 5 + 1
        m == IF mp < 10 THEN mp + 3 ELSE mp - 9
    IN [y |-> yoe + era * 400 + (IF m <= 2 THEN 1 ELSE 0), m |-> m, d |-> d]

\* day number of a calendar date
DaysFromCivil(y0, m, d) ==
    LET y == IF m <= 2 THEN y0 - 1 ELSE y0
        era == y \div 400
        yoe == y - era * 400
        doy == (153 * (IF m > 2 THEN m - 3 ELSE m + 9) + 2) \div 5 + d - 1
        doe == yoe * 365 + yoe \div 4 - yoe \div 100 + doy
    IN era * 146097 + doe - 719468

\* a timestamp is the wall clock [sec, us]: seconds of the local date and time
\* counted as if from 1970-01-01 00:00:00, and microseconds
DayOf(t) == t.sec \div 86400

Year(t) == CivilFromDays(DayOf(t)).y

Month(t) == CivilFromDays(DayOf(t)).m

DayOfMonth(t) == CivilFromDays(DayOf(t)).d

Hour(t) == (t.sec % 86400) \div 3600

\* 1 = Sunday ... 7 = Saturday
DayOfWeek(t) == ((DayOf(t) + 4) % 7) + 1

\* number of ISO weeks of year y
WeeksInYear(y) ==
    LET P(x) == (x + x \div 4 - x \div 100 + x \div 400) % 7
    IN IF P(y) = 4 \/ P(y - 1) = 3 THEN 53 ELSE 52

\* ISO 8601 week number
WeekOfYear(t) ==
    LET y == Year(t)
        ordinal == DayOf(t) - DaysFromCivil(y, 1, 1) + 1
        isowd == ((DayOf(t) + 3) % 7) + 1
        w == (ordinal - isowd + 10) \div 7
    IN IF w < 1 THEN WeeksInYear(y - 1)
       ELSE IF w > WeeksInYear(y) THEN 1
       ELSE w

\* ------------------------------------------------------- local time zone
Zones == {"UTC", "America/New_York"}

\* seconds to add to an epoch second to get the local wall clock in 2018
UtcOffset(zone, sec) ==
    IF zone = "UTC" THEN 0
    ELSE IF sec >= 1520751600 /\ sec < 1541311200 THEN 0 - 14400
    ELSE 0 - 18000

\* datetime.fromtimestamp(x / 1000.0): the naive local date and time
FromTimestamp(zone, x) ==
    [sec |-> x.sec + UtcOffset(zone, x.sec), us |-> x.ms * 1000]

\* --------------------------------------------------------------- records
Song(id, title, aid, aname, loc) ==
    [song_id |-> id, title |-> title, artist_id |-> aid, artist_name |-> aname,
     artist_location |-> loc, artist_latitude |-> Null, artist_longitude |-> Null,
     duration |-> 200, year |-> 2000]

Event(page, sec, ms, song, artist, uid, level) ==
    [page |-> page, ts |-> [sec |-> sec, ms |-> ms], song |-> song, artist |-> artist,
     userId |-> uid, firstName |-> "Jo", lastName |-> "Doe", gender |-> "F",
     level |-> level, sessionId |-> 5, location |-> "NYC", userAgent |-> "UA"]

\* the song records the inputs are drawn from: two records of one song_id and
\* one artist_id that differ in title and artist name, and two records of
\* different ids with the same title and artist name
SongRecords ==
    << Song("S1", "Test", "A1", "Band", "NYC"),
       Song("S1", "Other", "A1", "Band 2", Null),
       Song("S2", "Test", "A2", "Band", "LA"),
       Song("S3", "Third", "A1", "Band", "NYC") >>

\* the log events the inputs are drawn from: events one hour apart across the
\* end of daylight saving time, events of one ts, a play of a known title by
\* an unknown artist, and events of other pages
LogEvents ==
    << Event("NextSong", 1541309400, 0, "Test", "Band", "U1", "free"),
       Event("NextSong", 1541313000, 0, "Test", "Band", "U1", "paid"),
       Event("NextSong", 1541309400, 0, "Other", "Band 2", "U2", "paid"),
       Event("NextSong", 1542241826, 796, "Test", "Nobody", "U2", "free"),
       Event("Home", 1542241826, 796, Null, Null, "U3", "free"),
       Event("Home", 1541309400, 0, "Test", "Band", "U1", "free") >>

\* the collections of at most n records of a catalogue, one sequence each
Collections(catalogue, n) ==
    LET idx == UNION {[1..k -> 1..Len(catalogue)] : k \in 0..n}
        sorted == {f \in idx : \A i \in 1..Len(f) - 1 : f[i] <= f[i + 1]}
    IN {[i \in 1..Len(f) |-> catalogue[f[i]]] : f \in sorted}

\* ---------------------------------------------------------------- state
VARIABLES
    zone,        \* the local time zone of the process
    songInput,   \* the records at input_song_data_path
    logInput,    \* the records at input_log_data_path
    song_data,   \* main's song_data
    log_data,    \* main's log_data
    pc,          \* the statement of main that runs next
    failedAt,    \* the statement that raised, "none" while none has
    output,      \* the rows at each table's output path
    prior,       \* the rows at each table's output path when the run began
    rerun        \* this is the second run, after a run that completed

vars == <<zone, songInput, logInput, song_data, log_data, pc, failedAt,
          output, prior, rerun>>

Tables == {"songs", "artists", "users", "time", "songplays"}

\* the statements of main in order
Steps == <<"load_song", "load_log", "preprocess",
           "songs", "artists", "users", "time", "songplays", "done">>

StepIndex(s) == CHOOSE i \in 1..Len(Steps) : Steps[i] = s

NextStep(s) == Steps[StepIndex(s) + 1]

\* ----------------------------------------------------- dataframe operators
\* dropDuplicates, where key[i] is the value of the key columns in df[i]: one
\* record of each key value is kept, which one is open
DropDuplicates(df, key) ==
    LET keeps == {S \in SUBSET (1..Len(df)) :
                    /\ \A i \in 1..Len(df) : \E j \in S : key[j] = key[i]
                    /\ \A i, j \in S : key[i] = key[j] => i = j}
    IN {SubSeqAt(df, S, 1) : S \in keeps}

\* SQL equality: null equals nothing
SqlEq(a, b) == a # Null /\ b # Null /\ a = b

\* a filter that keeps the events of every page
FilterNothing(df) == df

\* log_data.filter(log_data.page == "NextSong")
FilterNextSong(df) ==
    SubSeqAt(df, {i \in 1..Len(df) : SqlEq(df[i].page, "NextSong")}, 1)

\* withColumn("timestamp", get_timestamp("ts"))
WithTimestamp(z, df) ==
    [i \in 1..Len(df) |->
        [page |-> df[i].page, ts |-> df[i].ts, song |-> df[i].song,
         artist |-> df[i].artist, userId |-> df[i].userId,
         firstName |-> df[i].firstName, lastName |-> df[i].lastName,
         gender |-> df[i].gender, level |-> df[i].level,
         sessionId |-> df[i].sessionId, location |-> df[i].location,
         userAgent |-> df[i].userAgent,
         timestamp |-> FromTimestamp(z, df[i].ts)]]

Preprocess(z, df) == WithTimestamp(z, FilterNextSong(df))

\* the songs deduplicated by title
SongKeyTitle(r) == r.title

SongKey(r) == r.song_id

ArtistKey(r) == r.artist_id

UserKey(r) == r.userId

\* the time table deduplicated by user
TimeKeyUser(r) == r.userId

TimeKey(r) == r.ts

SongRow(r) ==
    [song_id |-> r.song_id, title |-> r.title, artist_id |-> r.artist_id,
     duration |-> r.duration, year |-> r.year]

ArtistRow(r) ==
    [artist_id |-> r.artist_id, name |-> r.artist_name,
     location |-> r.artist_location, latitude |-> r.artist_latitude,
     longitude |-> r.artist_longitude]

UserRow(r) ==
    [user_id |-> r.userId, first_name |-> r.firstName, last_name |-> r.lastName,
     gender |-> r.gender, level |-> r.level]

TimeRow(r) ==
    [start_time |-> r.timestamp, hour |-> Hour(r.timestamp),
     day |-> DayOfMonth(r.timestamp), week |-> WeekOfYear(r.timestamp),
     month |-> Month(r.timestamp), year |-> Year(r.timestamp),
     weekday |-> DayOfWeek(r.timestamp)]

\* a join on the title alone
JoinCondTitle(e, s) == SqlEq(e.song, s.title)

\* the join condition of the fact table
JoinCond(e, s) == SqlEq(e.song, s.title) /\ SqlEq(e.artist, s.artist_name)

RECURSIVE JoinFrom(_, _, _, _)
\* the pairs <<e, s>> of log [i] onwards that satisfy the join condition
JoinFrom(log, song, i, j) ==
    IF i > Len(log) THEN <<>>
    ELSE IF j > Len(song) THEN JoinFrom(log, song, i + 1, 1)
    ELSE IF JoinCond(log[i], song[j])
         THEN <<(<<log[i], song[j]>>)>> \o JoinFrom(log, song, i, j + 1)
    ELSE JoinFrom(log, song, i, j + 1)

Join(log, song) == JoinFrom(log, song, 1, 1)

\* an id that is the record number within the partition alone
RecordNumberId(partition, record) == [hi |-> 0, lo |-> record]

\* monotonically_increasing_id: the partition index in the upper 31 bits and
\* the record number within the partition in the lower 33 bits; [hi, lo]
\* stands for the 64-bit value hi * 2^33 + lo
MonotonicallyIncreasingId(partition, record) == [hi |-> partition, lo |-> record]

\* fact columns whose year is the year column of the song record
FactColumnsSongYear(e, s) ==
    [start_time |-> e.timestamp, year |-> s.year,
     month |-> Month(e.timestamp), user_id |-> e.userId, level |-> e.level,
     song_id |-> s.song_id, artist_id |-> s.artist_id,
     session_id |-> e.sessionId, location |-> e.location,
     user_agent |-> e.userAgent]

\* the columns of a fact row other than songplay_id
FactColumns(e, s) ==
    [start_time |-> e.timestamp, year |-> Year(e.timestamp),
     month |-> Month(e.timestamp), user_id |-> e.userId, level |-> e.level,
     song_id |-> s.song_id, artist_id |-> s.artist_id,
     session_id |-> e.sessionId, location |-> e.location,
     user_agent |-> e.userAgent]

FactRow(id, e, s) == [songplay_id |-> id, cols |-> FactColumns(e, s)]

\* the partition of every joined row when the rows joined from log[i] are
\* produced in partition split[i]
RowPartitions(log, song, split) ==
    LET RECURSIVE From(_, _)
        From(i, j) ==
            IF i > Len(log) THEN <<>>
            ELSE IF j > Len(song) THEN From(i + 1, 1)
            ELSE IF JoinCond(log[i], song[j]) THEN <<split[i]>> \o From(i, j + 1)
            ELSE From(i, j + 1)
    IN From(1, 1)

\* the fact rows of the joined pairs when row k is in partition part[k]: a
\* row's record number is the number of rows before it in its partition
SongplaysRows(joined, part) ==
    [k \in 1..Len(joined) |->
        FactRow(MonotonicallyIncreasingId(part[k],
                    Cardinality({j \in 1..k - 1 : part[j] = part[k]})),
                joined[k][1], joined[k][2])]

\* mode("append")
AppendRows(old, new) == old \o new

\* mode("overwrite"): the rows at the path after a write that completed
Overwrite(old, new) == new

\* the rows a write in mode overwrite can leave at the path when it fails:
\* the old rows, or, once the old files are deleted, some of the new rows
FailedWrite(old, new) ==
    {old} \cup {SubSeq(new, 1, n) : n \in 0..Len(new) - 1}

\* ------------------------------------------------------------------ tables
\* a songs table built without dropDuplicates
SongsTablesAllRecords(df) == {[i \in 1..Len(df) |-> SongRow(df[i])]}

SongsTables(df) ==
    {[i \in 1..Len(d) |-> SongRow(d[i])] :
        d \in DropDuplicates(df, [i \in 1..Len(df) |-> SongKey(df[i])])}

ArtistsTables(df) ==
    {[i \in 1..Len(d) |-> ArtistRow(d[i])] :
        d \in DropDuplicates(df, [i \in 1..Len(df) |-> ArtistKey(df[i])])}

UsersTables(df) ==
    {[i \in 1..Len(d) |-> UserRow(d[i])] :
        d \in DropDuplicates(df, [i \in 1..Len(df) |-> UserKey(df[i])])}

TimeTables(df) ==
    {[i \in 1..Len(d) |-> TimeRow(d[i])] :
        d \in DropDuplicates(df, [i \in 1..Len(df) |-> TimeKey(df[i])])}

SongplaysTables(song, log) ==
    {SongplaysRows(Join(log, song), RowPartitions(log, song, split)) :
        split \in [1..Len(log) -> 0..NumPartitions - 1]}

\* the tables the statement at pc can produce
Produced(s) ==
    CASE s = "songs" -> SongsTables(song_data)
      [] s = "artists" -> ArtistsTables(song_data)
      [] s = "users" -> UsersTables(log_data)
      [] s = "time" -> TimeTables(log_data)
      [] s = "songplays" -> SongplaysTables(song_data, log_data)

\* the songplays table written to the path of the time table
OutputPathShared(s) == IF s = "songplays" THEN "time" ELSE s

\* the output path a statement writes
OutputPath(s) == s

\* ----------------------------------------------------------------- actions
Init ==
    /\ zone \in Zones
    /\ songInput \in Collections(SongRecords, MaxSongs)
    /\ logInput \in Collections(LogEvents, MaxLogs)
    /\ song_data = <<>>
    /\ log_data = <<>>
    /\ pc = "load_song"
    /\ failedAt = "none"
    /\ output = [t \in Tables |-> <<>>]
    /\ prior = [t \in Tables |-> <<>>]
    /\ rerun = FALSE

\* song_data = load_song_data(spark, input_song_data_path)
LoadSongData ==
    /\ pc = "load_song"
    /\ song_data' = songInput
    /\ pc' = NextStep(pc)
    /\ UNCHANGED <<zone, songInput, logInput, log_data, failedAt, output, prior,
                   rerun>>

\* log_data = load_log_data(spark, input_log_data_path)
LoadLogData ==
    /\ pc = "load_log"
    /\ log_data' = logInput
    /\ pc' = NextStep(pc)
    /\ UNCHANGED <<zone, songInput, logInput, song_data, failedAt, output, prior,
                   rerun>>

\* a read raises: main ends there
ReadFails ==
    /\ pc \in {"load_song", "load_log"}
    /\ failedAt' = pc
    /\ pc' = "aborted"
    /\ UNCHANGED <<zone, songInput, logInput, song_data, log_data, output, prior,
                   rerun>>

\* log_data = preprocess_log_data(log_data)
PreprocessLogData ==
    /\ pc = "preprocess"
    /\ log_data' = Preprocess(zone, log_data)
    /\ pc' = NextStep(pc)
    /\ UNCHANGED <<zone, songInput, logInput, song_data, failedAt, output, prior,
                   rerun>>

\* process_song_table ... process_songplays_table: build the table, write it
ProcessTable(s) ==
    /\ pc = s
    /\ \E new \in Produced(s) :
          output' = [output EXCEPT ![OutputPath(s)] = Overwrite(@, new)]
    /\ pc' = NextStep(pc)
    /\ UNCHANGED <<zone, songInput, logInput, song_data, log_data, failedAt, prior,
                   rerun>>

ProcessSongTable == ProcessTable("songs")

ProcessArtistTable == ProcessTable("artists")

ProcessUsersTable == ProcessTable("users")

ProcessTimeTable == ProcessTable("time")

ProcessSongplaysTable == ProcessTable("songplays")

\* the write of a table raises: main ends there
WriteFails ==
    /\ pc \in Tables
    /\ \E new \in Produced(pc) : \E left \in FailedWrite(output[OutputPath(pc)], new) :
          output' = [output EXCEPT ![OutputPath(pc)] = left]
    /\ failedAt' = pc
    /\ pc' = "aborted"
    /\ UNCHANGED <<zone, songInput, logInput, song_data, log_data, prior,
                   rerun>>

\* the script has completed and is run again on the same input and output
\* location
Rerun ==
    /\ pc = "done"
    /\ rerun = FALSE
    /\ rerun' = TRUE
    /\ prior' = output
    /\ pc' = "load_song"
    /\ failedAt' = "none"
    /\ song_data' = <<>>
    /\ log_data' = <<>>
    /\ UNCHANGED <<zone, songInput, logInput, output>>

Next ==
    \/ LoadSongData
    \/ LoadLogData
    \/ ReadFails
    \/ PreprocessLogData
    \/ ProcessSongTable
    \/ ProcessArtistTable
    \/ ProcessUsersTable
    \/ ProcessTimeTable
    \/ ProcessSongplaysTable
    \/ WriteFails

\* one run of the script
Spec == Init /\ [][Next]_vars

NextRerun ==
    \/ Next
    \/ Rerun

\* the inputs of the runs that are repeated: records that share their keys
\* and differ in other columns, and events of both kinds of page
InitRerun ==
    /\ Init
    /\ songInput \in Collections(SubSeq(SongRecords, 1, 2), MaxSongs)
    /\ logInput \in Collections(<<LogEvents[1], LogEvents[2], LogEvents[5]>>, MaxLogs - 1)

\* a run of the script and a second run on the same input and output location
SpecRerun == InitRerun /\ [][NextRerun]_vars

\* ------------------------------------------------------------ properties
Done == pc = "done"

Rows(t) == {output[t][i] : i \in 1..Len(output[t])}

\* the raw log events of page NextSong
NextSongEvents == {e \in Range(logInput) : e.page = "NextSong"}

\* the index pairs of a log event and a song record that the fact table joins
MatchingPairs ==
    {p \in (1..Len(logInput)) \X (1..Len(songInput)) :
        /\ logInput[p[1]].page = "NextSong"
        /\ logInput[p[1]].song = songInput[p[2]].title
        /\ logInput[p[1]].artist = songInput[p[2]].artist_name}

\* what a fact row shows of the event and the song record it was joined from
Origin(f) ==
    [start_time |-> f.cols.start_time, user_id |-> f.cols.user_id,
     level |-> f.cols.level, song_id |-> f.cols.song_id,
     artist_id |-> f.cols.artist_id]

OriginOfPair(p) ==
    [start_time |-> FromTimestamp(zone, logInput[p[1]].ts),
     user_id |-> logInput[p[1]].userId, level |-> logInput[p[1]].level,
     song_id |-> songInput[p[2]].song_id, artist_id |-> songInput[p[2]].artist_id]

\* the rows of a table without the songplay_id column
WithoutId(t) ==
    IF t = "songplays" THEN [i \in 1..Len(output[t]) |-> output[t][i].cols]
    ELSE output[t]

PriorWithoutId(t) ==
    IF t = "songplays" THEN [i \in 1..Len(prior[t]) |-> prior[t][i].cols]
    ELSE prior[t]

\* C1: after a completed run every song_id of a fact row is the song_id of a
\* songs row and every artist_id of a fact row is the artist_id of an artists
\* row, whichever duplicates the dimensions retained.
C1_ReferentialIntegrity ==
    Done =>
        \A f \in Rows("songplays") :
            /\ \E d \in Rows("songs") : d.song_id = f.cols.song_id
            /\ \E d \in Rows("artists") : d.artist_id = f.cols.artist_id

\* a completed run with a fact row whose song_id has two differing song
\* records, of which the songs table retained the one the event did not match
C1_Witness ==
    /\ Done
    /\ \E f \in Rows("songplays") : \E d \in Rows("songs") :
          /\ d.song_id = f.cols.song_id
          /\ \E e \in NextSongEvents :
                e.userId = f.cols.user_id /\ e.song # d.title

\* C2: the fact table has exactly one row for each pair of a NextSong event and
\* a raw song record with equal song/title and artist/artist_name: an event
\* that matches no record has no row, an event that matches several has one
\* row per record.
C2_FactIsJoin ==
    Done =>
        /\ Len(output["songplays"]) = Cardinality(MatchingPairs)
        /\ \A o \in {Origin(f) : f \in Rows("songplays")}
                    \cup {OriginOfPair(p) : p \in MatchingPairs} :
              Cardinality({i \in 1..Len(output["songplays"]) :
                              Origin(output["songplays"][i]) = o})
                  = Cardinality({p \in MatchingPairs : OriginOfPair(p) = o})

\* a completed run with a NextSong event that matches two song records and a
\* NextSong event that matches none
C2_Witness ==
    /\ Done
    /\ \E i \in 1..Len(logInput) :
          Cardinality({p \in MatchingPairs : p[1] = i}) = 2
    /\ \E i \in 1..Len(logInput) :
          /\ logInput[i].page = "NextSong"
          /\ {p \in MatchingPairs : p[1] = i} = {}
          /\ Len(songInput) > 0

\* C3: the songplay_id values of the fact rows are pairwise distinct, however
\* the joined rows are split across partitions.
C3_UniqueIds ==
    \A i, j \in 1..Len(output["songplays"]) :
        i # j => output["songplays"][i].songplay_id # output["songplays"][j].songplay_id

\* a completed run with two fact rows of one partition and two fact rows that
\* have the same record number in different partitions
C3_Witness ==
    /\ Done
    /\ \E f, g \in Rows("songplays") :
          f.songplay_id.hi = g.songplay_id.hi /\ f.songplay_id.lo # g.songplay_id.lo
    /\ \E f, g \in Rows("songplays") :
          f.songplay_id.hi # g.songplay_id.hi /\ f.songplay_id.lo = g.songplay_id.lo

\* C4 as claimed: after a run the users table has one row for every distinct
\* userId of the raw log events, also of users without a NextSong event.
C4_UsersFromRawLog ==
    Done =>
        /\ {u.user_id : u \in Rows("users")} = {e.userId : e \in Range(logInput)}
        /\ Len(output["users"]) = Cardinality({e.userId : e \in Range(logInput)})

\* C4 amended: an event of another page than NextSong contributes no row to
\* the time table, the fact table or the users table: the users table has one
\* row for every distinct userId of the NextSong events and no other row.
C4_UsersFromNextSong ==
    Done =>
        /\ {u.user_id : u \in Rows("users")} = {e.userId : e \in NextSongEvents}
        /\ Len(output["users"]) = Cardinality({e.userId : e \in NextSongEvents})
        /\ \A t \in Rows("time") :
              \E e \in NextSongEvents : t.start_time = FromTimestamp(zone, e.ts)
        /\ \A f \in Rows("songplays") :
              \E e \in NextSongEvents :
                  /\ f.cols.start_time = FromTimestamp(zone, e.ts)
                  /\ f.cols.user_id = e.userId

\* a completed run on a user with events of other pages only and a user with
\* a NextSong event
C4_Witness ==
    /\ Done
    /\ \E e \in Range(logInput) :
          /\ e.page # "NextSong"
          /\ \A n \in NextSongEvents : n.userId # e.userId
          /\ \A u \in Rows("users") : u.user_id # e.userId
    /\ Len(output["users"]) > 0

\* the records that share a key agree in the columns of the table, where
\* key[i] and row[i] are the key and the table row of record i
DuplicatesAgree(key, row) ==
    \A i, j \in 1..Len(key) : key[i] = key[j] => row[i] = row[j]

\* the key values of the rows of a dimension table
KeyColumn(t) ==
    [i \in 1..Len(t) |->
        CASE "song_id" \in DOMAIN t[i] -> t[i].song_id
          [] "user_id" \in DOMAIN t[i] -> t[i].user_id
          [] OTHER -> t[i].artist_id]

C6_OneRowPerKey ==
    Done =>
        /\ \A i, j \in 1..Len(output["songs"]) :
              output["songs"][i].song_id = output["songs"][j].song_id => i = j
        /\ {d.song_id : d \in Rows("songs")} = {r.song_id : r \in Range(song_data)}
        /\ \A d \in Rows("songs") : \E r \in Range(song_data) :
              /\ d.song_id = r.song_id /\ d.title = r.title
              /\ d.artist_id = r.artist_id /\ d.duration = r.duration
              /\ d.year = r.year
        /\ \A i, j \in 1..Len(output["artists"]) :
              output["artists"][i].artist_id = output["artists"][j].artist_id => i = j
        /\ {d.artist_id : d \in Rows("artists")} = {r.artist_id : r \in Range(song_data)}
        /\ \A d \in Rows("artists") : \E r \in Range(song_data) :
              /\ d.artist_id = r.artist_id /\ d.name = r.artist_name
              /\ d.location = r.artist_location /\ d.latitude = r.artist_latitude
              /\ d.longitude = r.artist_longitude
        /\ \A i, j \in 1..Len(output["users"]) :
              output["users"][i].user_id = output["users"][j].user_id => i = j
        /\ {d.user_id : d \in Rows("users")} = {r.userId : r \in Range(log_data)}
        /\ \A d \in Rows("users") : \E r \in Range(log_data) :
              /\ d.user_id = r.userId /\ d.first_name = r.firstName
              /\ d.last_name = r.lastName /\ d.gender = r.gender
              /\ d.level = r.level

\* a completed run on two song records of one song_id and one artist_id that
\* differ in title and artist name and two events of one user that differ in
\* level
C6_Witness ==
    /\ Done
    /\ \E r, q \in Range(song_data) :
          /\ r.song_id = q.song_id /\ r.title # q.title
          /\ r.artist_id = q.artist_id /\ r.artist_name # q.artist_name
    /\ \E r, q \in Range(log_data) : r.userId = q.userId /\ r.level # q.level
    /\ Len(output["songs"]) = 1
    /\ Len(output["artists"]) = 1
    /\ Len(output["users"]) = 1

\* C7: the time table has exactly one row per distinct ts of the NextSong
\* events, its start_time values are the timestamps derived from those events,
\* and every row's hour, day, week, month, year and weekday are those of the
\* row's start_time.
C7_TimeRows ==
    Done =>
        /\ Len(output["time"]) = Cardinality({e.ts : e \in NextSongEvents})
        /\ {t.start_time : t \in Rows("time")}
              = {FromTimestamp(zone, e.ts) : e \in NextSongEvents}
        /\ \A t \in Rows("time") :
              /\ t.hour = Hour(t.start_time)
              /\ t.day = DayOfMonth(t.start_time)
              /\ t.week = WeekOfYear(t.start_time)
              /\ t.month = Month(t.start_time)
              /\ t.year = Year(t.start_time)
              /\ t.weekday = DayOfWeek(t.start_time)

\* a completed run on two NextSong events of one ts that differ otherwise
C7_Witness ==
    /\ Done
    /\ \E e, g \in NextSongEvents : e.ts = g.ts /\ e.userId # g.userId
    /\ Len(output["time"]) = 1

\* C8: after a run the time table has at most one row per start_time, for every
\* set of log events, whether or not two ts values have the same timestamp.
C8_OneRowPerStartTime ==
    Done =>
        \A i, j \in 1..Len(output["time"]) :
            output["time"][i].start_time = output["time"][j].start_time => i = j

\* C9 as claimed: when a read or a write fails, the tables whose write
\* completed before hold the new contents and every other table holds the
\* contents the prior run left.
C9_OthersKeepPriorContents ==
    pc = "aborted" =>
        \A t \in Tables :
            IF StepIndex(t) < StepIndex(failedAt)
            THEN output[t] \in Produced(t)
            ELSE output[t] = prior[t]

\* the statement main is at, or was at when it ended
Position == IF pc = "aborted" THEN failedAt ELSE pc

\* C9 amended: both reads come before any write and the writes come one at a
\* time in the order songs, artists, users, time, songplays; when a read or a
\* write fails the run ends there: the tables whose write completed before
\* hold the new contents, the tables whose write was not attempted hold the
\* contents the prior run left (all of them when a read fails), and the table
\* whose write failed holds its prior contents or some, possibly none, of its
\* new rows.  A write changes no other table.
C9_UnattemptedKeepPriorContents ==
    \A t \in Tables :
        /\ StepIndex(t) < StepIndex(Position) => output[t] \in Produced(t)
        /\ StepIndex(t) > StepIndex(Position) => output[t] = prior[t]
        /\ (StepIndex(t) = StepIndex(Position) /\ pc # "aborted")
              => output[t] = prior[t]
        /\ (StepIndex(t) = StepIndex(Position) /\ pc = "aborted")
              => \/ output[t] = prior[t]
                 \/ \E new \in Produced(t) : \E n \in 0..Len(new) :
                        output[t] = SubSeq(new, 1, n)

\* a second run that ended at the write of the users table, which lost its
\* rows: the songs table has new contents, the time table and the fact table
\* have the rows the first run left
C9_Witness ==
    /\ pc = "aborted"
    /\ rerun
    /\ failedAt = "users"
    /\ output["songs"] # prior["songs"]
    /\ Len(prior["users"]) > 0
    /\ output["users"] = <<>>
    /\ Len(output["time"]) > 0
    /\ Len(output["songplays"]) > 0

\* C10: after a completed run every fact row has a time row of its start_time,
\* year and month and a users row of its user_id.
C10_FactHasTimeAndUser ==
    Done =>
        \A f \in Rows("songplays") :
            /\ \E t \in Rows("time") :
                  /\ t.start_time = f.cols.start_time
                  /\ t.year = f.cols.year
                  /\ t.month = f.cols.month
            /\ \E u \in Rows("users") : u.user_id = f.cols.user_id

\* a completed run with fact rows of two events that have one ts and two users
C10_Witness ==
    /\ Done
    /\ \E f, g \in Rows("songplays") :
          f.cols.start_time = g.cols.start_time /\ f.cols.user_id # g.cols.user_id
    /\ Len(output["time"]) = 1

====
